---- MODULE Spec2Model ----
(***************************************************************************)
(* Model of the catena-tui configuration console: the Setup Wizard         *)
(* (SetupWizard.py), the hostname step screen it embeds                    *)
(* (HostnameManager.py), and the menu's dispatch of leaf screens through   *)
(* the pop-up host (tui_menu.py, tui.py).                                  *)
(*                                                                         *)
(* Widgets are modelled by the name of what they render: a Pile's contents *)
(* is a sequence of such names, a button is named by its label.  Texts the *)
(* operator types are sequences of characters, so that strip() is computed.*)
(*                                                                         *)
(* urwid's signal semantics (library, not repository code):                *)
(* connect_signal appends one handler per call and never de-duplicates;    *)
(* _emit calls every connected handler once, in order.                     *)
(*                                                                         *)
(* PopUpFrame and NetworkSelector are imported by the sources but are not  *)
(* among them; they are modelled from the specification (sections 4.3 and  *)
(* 4.4) and marked so in the model map.                                    *)
(*                                                                         *)
(* SetupWizard.__init__ passes its flag to every step screen by the        *)
(* keyword initial_setup; TimezoneManager and TimeManager name their mode  *)
(* parameter setup_wizard.  The model binds the wizard's flag to that one  *)
(* mode parameter of each step screen.                                     *)
(*                                                                         *)
(* Six specifications share the variables.  Spec is the wizard and its     *)
(* hostname step; MenuSpec is the menu tree and the pop-up host;           *)
(* TimezoneSpec is a session on the timezone screen; BootSpec is startup   *)
(* (tui.py main); TimeSpec is a session on the time screen; TreeSpec is    *)
(* the tree view over any menu data of bounded fan-out.                    *)
(* Each leaves the variables of the other parts at a fixed value.          *)
(***************************************************************************)
EXTENDS Integers, Sequences, FiniteSets, TLC

VARIABLES
    wizard,     \* the SetupWizard instance the session can reach
    hn,         \* the HostnameManager instance embedded in that wizard
    overlay,    \* Menu.view (PopUpFrame): the presented screen, or "None"
    handlers,   \* per menu leaf screen: number of close handlers connected
    obs,        \* what the last handler did: event, emits, dismiss calls, reboot runs
    next_run,   \* consecutive Next clicks since the wizard stood at step 0
    session,    \* "running", "rebooted" (`sudo reboot` succeeded), "quit", "crashed"
    nav,        \* the menu tree view: focused node and expanded nodes
    tz,         \* a TimezoneManager screen and the system timezone it sets
    boot,       \* startup: the network-port source and the view main() runs
    tm          \* a TimeManager screen

vars == <<wizard, hn, overlay, handlers, obs, next_run, session, nav, tz, boot, tm>>

\* Each specification below tracks one part of the program and leaves the
\* variables of the other parts at this value.
Untracked == "untracked"

----------------------------------------------------------------------------
(* Bounds *)

MaxLen == 2
MaxRebootFailures == 2
MaxActivations == 3

----------------------------------------------------------------------------
(* Sequences as Python lists *)

Range(s) == {s[i] : i \in DOMAIN s}

Count(s, x) == Cardinality({i \in DOMAIN s : s[i] = x})

\* list.insert(i, x), i a 0-based index
Insert(s, i, x) ==
    IF i >= Len(s) THEN Append(s, x)
    ELSE SubSeq(s, 1, i) \o <<x>> \o SubSeq(s, i + 1, Len(s))

\* s[-1] = x
SetLast(s, x) == [s EXCEPT ![Len(s)] = x]

Chars == {" ", "a"}

Texts == UNION {[1..n -> Chars] : n \in 0..MaxLen}

RECURSIVE lstrip(_)
lstrip(t) == IF t # <<>> /\ Head(t) = " " THEN lstrip(Tail(t)) ELSE t

RECURSIVE rstrip(_)
rstrip(t) ==
    IF t # <<>> /\ t[Len(t)] = " " THEN rstrip(SubSeq(t, 1, Len(t) - 1)) ELSE t

\* str.strip()
strip(t) == rstrip(lstrip(t))

\* platform.node() at construction
InitialHostname == <<"a">>

Buttons == {"Next", "Home", "Reboot", "Submit", "Back", "Set Timezone"}

ButtonsOf(pile) == Range(pile) \cap Buttons

RebootFailedText == "Failed to reboot system"

----------------------------------------------------------------------------
(* HostnameManager: the step screen at wizard step 0 *)

StandaloneLayout ==
    <<"hostname_input", "Divider", "current_hostname_display", "Divider",
      "Submit", "Back", "Reboot">>

EmbeddedLayout ==
    <<"hostname_input", "Divider", "current_hostname_display", "Divider",
      "Submit">>

\* HostnameManager.__init__ / create_layout: the standalone pile is built with
\* the Reboot button last and that slot is at once overwritten by Text('').
create_layout(flag) ==
    [initial_setup            |-> flag,
     current_hostname         |-> InitialHostname,
     hostname_input           |-> <<>>,
     current_hostname_display |-> InitialHostname,
     reboot_button_displayed  |-> FALSE,
     pile |-> IF flag = FALSE
              THEN SetLast(StandaloneLayout, "Text('')")
              ELSE EmbeddedLayout]

\* how many times submit_hostname runs `sudo hostnamectl set-hostname`: once
\* `if new_hostname:` holds
set_hostname_runs(h) == IF strip(h.hostname_input) # <<>> THEN 1 ELSE 0

\* variant: the hostname is taken over whatever the command's exit status
submit_hostname_unchecked(h, exit) ==
    LET new_hostname == strip(h.hostname_input)
        contents == IF h.initial_setup = FALSE THEN StandaloneLayout
                    ELSE EmbeddedLayout
    IN  IF new_hostname # <<>>
        THEN [h EXCEPT !.current_hostname = new_hostname,
                       !.current_hostname_display = new_hostname,
                       !.pile = Insert(contents, 3,
                                       IF exit = 0 THEN "Hostname changed. Please reboot."
                                       ELSE "Failed to change hostname"),
                       !.hostname_input = <<>>]
        ELSE [h EXCEPT !.pile = Insert(contents, 3, "Please provide a valid hostname.")]

\* submit_hostname; exit is the exit status of `sudo hostnamectl set-hostname`
submit_hostname(h, exit) ==
    LET new_hostname == strip(h.hostname_input)
        contents == IF h.initial_setup = FALSE THEN StandaloneLayout
                    ELSE EmbeddedLayout
    IN  IF new_hostname # <<>>
        THEN IF exit = 0
             THEN LET response == IF h.initial_setup = FALSE
                                  THEN "Hostname changed. Please reboot."
                                  ELSE "Hostname changed. Please click Next"
                      inserted == Insert(contents, 3, response)
                      show == ~h.reboot_button_displayed /\ h.initial_setup
                  IN  [h EXCEPT !.current_hostname = new_hostname,
                                !.current_hostname_display = new_hostname,
                                !.pile = IF show THEN SetLast(inserted, "Reboot")
                                         ELSE inserted,
                                !.reboot_button_displayed = @ \/ show,
                                !.hostname_input = <<>>]
             ELSE [h EXCEPT !.pile = Insert(contents, 3, "Failed to change hostname")]
        ELSE [h EXCEPT !.pile = Insert(contents, 3, "Please provide a valid hostname.")]

\* HostnameManager.reboot_system, when `sudo reboot` exits non-zero
hostname_reboot_failed(h) ==
    [h EXCEPT !.pile = Insert(@, 1, RebootFailedText)]

\* screen_reset, the state change of exit_to_menu
screen_reset(h) ==
    [h EXCEPT !.pile = <<"hostname_input", "Divider", "current_hostname_display",
                         "Divider", "Submit", "Back">>]

\* TimezoneManager.create_layout: the buttons of the timezone screen
TimezoneControls(flag) ==
    IF ~flag THEN {"Set Timezone", "Back", "Reboot"} ELSE {"Set Timezone"}

\* TimeManager.create_layout: the buttons of the time screen
TimeControls(flag) ==
    IF ~flag THEN {"Submit", "Back", "Reboot"} ELSE {"Submit"}

----------------------------------------------------------------------------
(* SetupWizard *)

Steps ==
    << [label |-> "Set Hostname",      widget |-> "HostnameManager"],
       [label |-> "Set Timezone",      widget |-> "TimezoneManager"],
       [label |-> "Set Time",          widget |-> "TimeManager"],
       [label |-> "Configure Network", widget |-> "NetworkSelector"] >>

\* update_body without the subscription to the network step's close signal
update_body_no_connect(wz) ==
    IF wz.current_step_index + 1 \notin DOMAIN wz.steps THEN wz
    ELSE LET step_widget == wz.steps[wz.current_step_index + 1].widget
         IN  IF step_widget = "NetworkSelector"
             THEN [wz EXCEPT !.w = "PopUpFrame(NetworkSelector)"]
             ELSE [wz EXCEPT !.pile = <<step_widget, "Divider", "Next">>]

\* update_body.  current_step_index is 0-based, TLA+ sequences are 1-based.
\* An index past the list raises IndexError, which the handler's
\* `except ValueError` does not catch: nothing more is assigned.
update_body(wz) ==
    IF wz.current_step_index + 1 \notin DOMAIN wz.steps THEN wz
    ELSE LET step_widget == wz.steps[wz.current_step_index + 1].widget
         IN  IF step_widget = "NetworkSelector"
             THEN [wz EXCEPT !.network_close_handlers = Append(@, "back"),
                             !.w = "PopUpFrame(NetworkSelector)"]
             ELSE [wz EXCEPT !.pile = <<step_widget, "Divider", "Next">>]

\* SetupWizard.__init__
SetupWizard_init(flag) ==
    update_body([initial_setup          |-> flag,
                 steps                  |-> Steps,
                 current_step_index     |-> 0,
                 pile                   |-> <<"Next">>,
                 w                      |-> "LineBox(Setup Wizard)",
                 network_close_handlers |-> <<>>])

\* next_step that advances the index and does not re-render
next_step_no_render(wz) ==
    IF wz.current_step_index < Len(wz.steps) - 1
    THEN [wz EXCEPT !.current_step_index = @ + 1]
    ELSE wz

\* next_step with update_body outside the guard
next_step_rerender(wz) ==
    update_body(IF wz.current_step_index < Len(wz.steps) - 1
                THEN [wz EXCEPT !.current_step_index = @ + 1]
                ELSE wz)

\* next_step with the guard off by one
next_step_off_by_one(wz) ==
    IF wz.current_step_index < Len(wz.steps)
    THEN update_body([wz EXCEPT !.current_step_index = @ + 1])
    ELSE wz

\* next_step that jumps over a step while two are left
next_step_skips(wz) ==
    IF wz.current_step_index < Len(wz.steps) - 2
    THEN update_body([wz EXCEPT !.current_step_index = @ + 2])
    ELSE IF wz.current_step_index < Len(wz.steps) - 1
    THEN update_body([wz EXCEPT !.current_step_index = @ + 1])
    ELSE wz

next_step(wz) ==
    IF wz.current_step_index < Len(wz.steps) - 1
    THEN update_body([wz EXCEPT !.current_step_index = @ + 1])
    ELSE wz

\* back that ignores initial_setup
back_always_manual(wz) ==
    [wz EXCEPT
       !.pile = <<"Setup is now complete. Please reboot now or later",
                  "Divider", "Home", "Divider", "Reboot">>,
       !.w = "LineBox(Setup Wizard Completion)"]

\* back: the handler connected to the network step's close signal
back(wz) ==
    [wz EXCEPT
       !.pile = IF wz.initial_setup
                THEN <<"Setup is now complete. Please reboot to apply the changes made",
                       "Divider", "Reboot">>
                ELSE <<"Setup is now complete. Please reboot now or later",
                       "Divider", "Home", "Divider", "Reboot">>,
       !.w = "LineBox(Setup Wizard Completion)"]

\* reboot_system that swallows the failure
wizard_reboot_failed_silent(wz) == wz

\* SetupWizard.reboot_system, when `sudo reboot` exits non-zero
wizard_reboot_failed(wz) ==
    [wz EXCEPT !.pile = Insert(@, 1, RebootFailedText)]

\* finish that steps back instead of resetting
finish_decrement(wz) == update_body([wz EXCEPT !.current_step_index = @ - 1])

\* finish that does not reset the index
finish_no_reset(wz) == update_body(wz)

\* finish, up to its _emit('close')
finish(wz) == update_body([wz EXCEPT !.current_step_index = 0])

\* the network step's _emit('close'): every connected handler runs
RECURSIVE emit_network_close(_, _)
emit_network_close(hs, wz) ==
    IF hs = <<>> THEN wz ELSE emit_network_close(Tail(hs), back(wz))

CompletionMessages ==
    {"Setup is now complete. Please reboot to apply the changes made",
     "Setup is now complete. Please reboot now or later"}

\* what the wizard renders
Completed(wz) ==
    /\ wz.w = "LineBox(Setup Wizard Completion)"
    /\ Range(wz.pile) \cap CompletionMessages # {}

NetworkPresented(wz) == wz.w = "PopUpFrame(NetworkSelector)"

InStep(wz, i) ==
    /\ wz.current_step_index = i
    /\ IF wz.steps[i + 1].widget = "NetworkSelector"
       THEN NetworkPresented(wz)
       ELSE /\ ~NetworkPresented(wz)
            /\ wz.pile = <<wz.steps[i + 1].widget, "Divider", "Next">>

WizardControls(wz) ==
    IF NetworkPresented(wz) THEN {} ELSE ButtonsOf(wz.pile)

----------------------------------------------------------------------------
(* Menu: dispatch of a leaf screen through the pop-up host *)

\* the leaf screens of tui.py's menu whose classes are among the sources
ManagerLeaves == {"HostnameManager", "TimezoneManager", "TimeManager"}

ScreenLeaves == ManagerLeaves \cup {"SetupWizard"}

RECURSIVE Sum(_, _)
Sum(f, S) ==
    IF S = {} THEN 0
    ELSE LET x == CHOOSE y \in S : TRUE IN f[x] + Sum(f, S \ {x})

\* PopUpFrame.open_pop_up: present(screen) replaces what is displayed
open_pop_up(ov, screen) == screen

\* PopUpFrame.close_pop_up: dismiss() restores the base view
close_pop_up(ov) == "None"

\* the handlers keypress connected to a leaf screen's close signal, each
\* `lambda button: launcher.close_pop_up()`, run one after the other
RECURSIVE emit_close(_, _)
emit_close(n, ov) == IF n = 0 THEN ov ELSE emit_close(n - 1, close_pop_up(ov))

\* variant: Enter opens the pop-up without connecting a close handler
keypress_enter_no_connect(hs, leaf) == hs

\* ActionDisplayNode.keypress, key 'enter', on a leaf whose action is a widget:
\* connect one more close handler to the action
keypress_enter(hs, leaf) == [hs EXCEPT ![leaf] = @ + 1]

Observed(event, emitted, dismissed, reboot_runs, exit) ==
    [event |-> event, emitted |-> emitted, dismissed |-> dismissed,
     reboot_runs |-> reboot_runs, exit |-> exit, set_hostname_runs |-> 0]

\* tui.py main(): the first-boot wizard replaces the menu view for the session;
\* otherwise the wizard is the screen of the "Setup Wizard" leaf
WizardShown == wizard.initial_setup \/ overlay = "SetupWizard"

HostnameShown ==
    /\ WizardShown
    /\ ~NetworkPresented(wizard)
    /\ "HostnameManager" \in Range(wizard.pile)

\* the Next-run counter after an event other than Next
RunAfter(wz) == IF wz.current_step_index = 0 THEN 0 ELSE -1

----------------------------------------------------------------------------
(* The session *)

Init ==
    \E flag \in BOOLEAN :
        /\ wizard = SetupWizard_init(flag)
        /\ hn = create_layout(flag)
        /\ overlay = "None"
        /\ handlers = [l \in ScreenLeaves |-> 0]
        /\ obs = Observed("start", 0, 0, 0, 0)
        /\ next_run = 0
        /\ session = "running"
        /\ nav = Untracked
        /\ tz = Untracked
        /\ boot = Untracked
        /\ tm = Untracked

\* Enter on a leaf of the menu tree (the tree has the focus only while no
\* screen is presented)
Activate(leaf) ==
    /\ session = "running"
    /\ ~wizard.initial_setup
    /\ overlay = "None"
    /\ Sum(handlers, ScreenLeaves) < MaxActivations
    /\ handlers' = keypress_enter(handlers, leaf)
    /\ overlay' = open_pop_up(overlay, leaf)
    /\ obs' = Observed("Enter", 0, 0, 0, 0)
    /\ next_run' = RunAfter(wizard)
    /\ UNCHANGED <<wizard, hn, session>>
    /\ UNCHANGED <<nav, tz, boot, tm>>

\* Back on a presented standalone manager screen: exit_to_menu emits close
ManagerBack ==
    /\ session = "running"
    /\ overlay \in ManagerLeaves
    /\ overlay' = emit_close(handlers[overlay], overlay)
    /\ obs' = Observed("Back", 1, handlers[overlay], 0, 0)
    /\ next_run' = RunAfter(wizard)
    /\ UNCHANGED <<wizard, hn, handlers, session>>
    /\ UNCHANGED <<nav, tz, boot, tm>>

\* the Next button's callback.  The button is rendered only while a step
\* before the network step is shown; a call at the last step is a direct
\* call of the handler.
Next_clicked ==
    /\ session = "running"
    /\ WizardShown
    /\ wizard' = next_step(wizard)
    /\ obs' = Observed("Next", 0, 0, 0, 0)
    /\ next_run' = IF next_run = -1 THEN -1
                   ELSE IF next_run < Len(wizard.steps) THEN next_run + 1
                   ELSE next_run
    /\ UNCHANGED <<hn, overlay, handlers, session>>
    /\ UNCHANGED <<nav, tz, boot, tm>>

\* the network step asks to leave: its close signal is emitted
NetworkClose ==
    /\ session = "running"
    /\ WizardShown
    /\ NetworkPresented(wizard)
    /\ wizard' = emit_network_close(wizard.network_close_handlers, wizard)
    /\ obs' = Observed("NetworkClose", 0, 0, 0, 0)
    /\ next_run' = RunAfter(wizard')
    /\ UNCHANGED <<hn, overlay, handlers, session>>
    /\ UNCHANGED <<nav, tz, boot, tm>>

\* Home on the completion screen: finish
Home_clicked ==
    /\ session = "running"
    /\ WizardShown
    /\ "Home" \in WizardControls(wizard)
    /\ wizard' = finish(wizard)
    /\ overlay' = emit_close(handlers["SetupWizard"], overlay)
    /\ obs' = Observed("Home", 1, handlers["SetupWizard"], 0, 0)
    /\ next_run' = RunAfter(wizard')
    /\ UNCHANGED <<hn, handlers, session>>
    /\ UNCHANGED <<nav, tz, boot, tm>>

\* Reboot on the completion screen: SetupWizard.reboot_system
Reboot_clicked(exit) ==
    /\ session = "running"
    /\ WizardShown
    /\ "Reboot" \in WizardControls(wizard)
    /\ IF exit = 0
       THEN /\ session' = "rebooted"
            /\ UNCHANGED wizard
       ELSE /\ Count(wizard.pile, RebootFailedText) < MaxRebootFailures
            /\ wizard' = wizard_reboot_failed(wizard)
            /\ UNCHANGED session
    /\ obs' = Observed("Reboot", 0, 0, 1, exit)
    /\ next_run' = RunAfter(wizard')
    /\ UNCHANGED <<hn, overlay, handlers>>
    /\ UNCHANGED <<nav, tz, boot, tm>>

\* the operator edits the hostname field
HostnameEdit(text) ==
    /\ session = "running"
    /\ HostnameShown
    /\ text # hn.hostname_input
    /\ hn' = [hn EXCEPT !.hostname_input = text]
    /\ obs' = Observed("HostnameEdit", 0, 0, 0, 0)
    /\ next_run' = RunAfter(wizard)
    /\ UNCHANGED <<wizard, overlay, handlers, session>>
    /\ UNCHANGED <<nav, tz, boot, tm>>

HostnameSubmit(exit) ==
    /\ session = "running"
    /\ HostnameShown
    /\ "Submit" \in ButtonsOf(hn.pile)
    /\ hn' = submit_hostname(hn, exit)
    /\ obs' = [Observed("HostnameSubmit", 0, 0, 0, exit)
                  EXCEPT !.set_hostname_runs = set_hostname_runs(hn)]
    /\ next_run' = RunAfter(wizard)
    /\ UNCHANGED <<wizard, overlay, handlers, session>>
    /\ UNCHANGED <<nav, tz, boot, tm>>

\* Back on the embedded hostname screen: exit_to_menu.  Nothing is connected
\* to the close signal of the wizard's own HostnameManager.
HostnameBack ==
    /\ session = "running"
    /\ HostnameShown
    /\ "Back" \in ButtonsOf(hn.pile)
    /\ hn' = screen_reset(hn)
    /\ obs' = Observed("HostnameBack", 0, 0, 0, 0)
    /\ next_run' = RunAfter(wizard)
    /\ UNCHANGED <<wizard, overlay, handlers, session>>
    /\ UNCHANGED <<nav, tz, boot, tm>>

\* Reboot on the embedded hostname screen: HostnameManager.reboot_system
HostnameReboot(exit) ==
    /\ session = "running"
    /\ HostnameShown
    /\ "Reboot" \in ButtonsOf(hn.pile)
    /\ IF exit = 0
       THEN /\ session' = "rebooted"
            /\ UNCHANGED hn
       ELSE /\ Count(hn.pile, RebootFailedText) < MaxRebootFailures
            /\ hn' = hostname_reboot_failed(hn)
            /\ UNCHANGED session
    /\ obs' = Observed("HostnameReboot", 0, 0, 1, exit)
    /\ next_run' = RunAfter(wizard)
    /\ UNCHANGED <<wizard, overlay, handlers>>
    /\ UNCHANGED <<nav, tz, boot, tm>>

ExitCodes == {0, 1}

Next ==
    \/ \E leaf \in ScreenLeaves : Activate(leaf)
    \/ ManagerBack
    \/ Next_clicked
    \/ NetworkClose
    \/ Home_clicked
    \/ \E exit \in ExitCodes : Reboot_clicked(exit)
    \/ \E text \in Texts : HostnameEdit(text)
    \/ \E exit \in ExitCodes : HostnameSubmit(exit)
    \/ HostnameBack
    \/ \E exit \in ExitCodes : HostnameReboot(exit)

Spec == Init /\ [][Next]_vars

----------------------------------------------------------------------------
(* Setup Wizard: claims *)

LastStep == Len(wizard.steps) - 1

C3_IndexInRange ==
    /\ wizard.current_step_index \in 0 .. (Len(wizard.steps) - 1)
    /\ wizard.steps = Steps

C3_Witness ==
    /\ handlers["SetupWizard"] = 2
    /\ overlay = "SetupWizard"
    /\ wizard.current_step_index = LastStep

\* C4: every change of current_step_index is +1 by Next, or a reset to 0 by
\* Home from the completion screen; in particular no Back changes it.
C4_ForwardOnly ==
    [][wizard'.current_step_index # wizard.current_step_index
       => \/ /\ wizard'.current_step_index = wizard.current_step_index + 1
             /\ obs'.event = "Next"
          \/ /\ wizard'.current_step_index = 0
             /\ obs'.event = "Home"
             /\ Completed(wizard)]_vars

C4_Witness ==
    obs.event = "Home" /\ wizard.current_step_index = 0

\* C5: the network step's close moves the wizard into Completed, and nothing
\* else ever does.
C5_CloseCompletes ==
    [][/\ obs'.event = "NetworkClose"
          => ~Completed(wizard) /\ Completed(wizard')
       /\ (~Completed(wizard) /\ Completed(wizard'))
          => obs'.event = "NetworkClose" /\ NetworkPresented(wizard)]_vars

C5_Witness ==
    obs.event = "NetworkClose" /\ Completed(wizard)

\* C6: the completion screen offers exactly {Reboot} in first-boot mode and
\* exactly {Home, Reboot} in manual mode, on every entry into Completed.
C6_CompletionControls ==
    Completed(wizard)
    => WizardControls(wizard) = IF wizard.initial_setup THEN {"Reboot"}
                                ELSE {"Home", "Reboot"}

C6_Witness ==
    Completed(wizard) /\ Len(wizard.network_close_handlers) = 2

\* C7: Home emits the wizard's close once, resets the wizard to InStep(0) and
\* brings the menu back; a later activation of the Setup Wizard leaf shows the
\* first step with Next.
C7_HomeResets ==
    /\ [][obs'.event = "Home"
          => /\ obs'.emitted = 1
             /\ InStep(wizard', 0)
             /\ overlay' = "None"]_vars
    /\ []((overlay = "SetupWizard" /\ obs.event = "Enter")
          => /\ InStep(wizard, 0)
             /\ "Next" \in WizardControls(wizard))

C7_Witness ==
    /\ overlay = "SetupWizard"
    /\ obs.event = "Enter"
    /\ handlers["SetupWizard"] = 2

\* C8: a failed reboot from the completion screen shows the failure text on
\* that screen, runs the command once, keeps the wizard in Completed with the
\* same index and emits no close; the command runs only on a Reboot click.
C8_RebootFailureStays ==
    [][/\ (obs'.event = "Reboot" /\ obs'.exit # 0)
          => /\ Completed(wizard')
             /\ Count(wizard'.pile, RebootFailedText)
                  = Count(wizard.pile, RebootFailedText) + 1
             /\ wizard'.current_step_index = wizard.current_step_index
             /\ obs'.reboot_runs = 1
             /\ obs'.emitted = 0
             /\ obs'.dismissed = 0
             /\ overlay' = overlay
             /\ session' = "running"
       /\ obs'.reboot_runs
            = IF obs'.event \in {"Reboot", "HostnameReboot"} THEN 1 ELSE 0]_vars

C8_Witness ==
    obs.event = "Reboot" /\ obs.exit # 0 /\ Completed(wizard)

\* C9 (as stated): an embedded hostname, timezone or time screen shows no
\* control but its own Submit, in first-boot and in manual runs of the wizard,
\* before and after any Submit.
C9_EmbeddedShowOnlySubmit ==
    /\ ButtonsOf(hn.pile) = {"Submit"}
    /\ TimezoneControls(wizard.initial_setup) = {"Set Timezone"}
    /\ TimeControls(wizard.initial_setup) = {"Submit"}

\* C10 (as stated): one close notification from a presented leaf screen makes
\* exactly one close_pop_up call, on every activation of the screen.
C10_OneDismissPerClose ==
    obs.emitted = 1 => obs.dismissed = 1

----------------------------------------------------------------------------
(* The menu tree: tui.py's menu shown by Menu's TreeListBox *)

\* a bound of its own for the tree's specification: close handlers connected
MaxPresentations == 2

\* Nodes are named by their path of child keys from the top node "Catena".
TopNode == <<>>

\* tui.py menu: "Networks" has two leaves, "Utilities" seven
ChildCount(path) ==
    IF path = TopNode THEN 2
    ELSE IF path = <<1>> THEN 2
    ELSE IF path = <<2>> THEN 7
    ELSE 0

\* MenuParentNode.load_child_keys: range(len(children))
load_child_keys(path) == {path \o <<k>> : k \in 1..ChildCount(path)}

ParentNodes == {TopNode, <<1>>, <<2>>}

\* MenuParentNode.load_child_node: an item with an "action" is an ActionNode
ActionNodes == UNION {load_child_keys(p) : p \in ParentNodes} \ ParentNodes

\* the class of the object each leaf's "action" holds
ActionClass(leaf) ==
    IF leaf = <<1, 1>> THEN "NetworkSelector"
    ELSE IF leaf = <<2, 1>> THEN "HostnameManager"
    ELSE IF leaf = <<2, 2>> THEN "TimezoneManager"
    ELSE IF leaf = <<2, 3>> THEN "TimeManager"
    ELSE IF leaf = <<2, 4>> THEN "CommandAction"
    ELSE IF leaf = <<2, 7>> THEN "SetupWizard"
    ELSE "RawTerminalAction"

\* the "name" of each leaf's item: what the tree row and the log show
ActionName(leaf) ==
    IF leaf = <<1, 1>> THEN "Network Interfaces"
    ELSE IF leaf = <<1, 2>> THEN "Edit Network Settings"
    ELSE IF leaf = <<2, 1>> THEN "Configure System Host"
    ELSE IF leaf = <<2, 2>> THEN "Configure System Timezone"
    ELSE IF leaf = <<2, 3>> THEN "Configure System Time"
    ELSE IF leaf = <<2, 4>> THEN "System Information"
    ELSE IF leaf = <<2, 5>> THEN "Reboot"
    ELSE IF leaf = <<2, 6>> THEN "Shutdown"
    ELSE "Setup Wizard"

\* What keypress can find in an action: a callable, a widget, a widget with
\* a start() hook.  The four classes among the sources are widgets without
\* start(); NetworkSelector is a widget (SetupWizard connects its close
\* signal); the other classes are not among the sources and may be any.
Shapes == {"callable", "widget", "widget_start"}

ShapesOf(class) ==
    IF class \in ScreenLeaves THEN {"widget"}
    ELSE IF class = "NetworkSelector" THEN {"widget", "widget_start"}
    ELSE Shapes

\* what the action does when it is called or started
Outcomes == {"ok", "raises"}

ParentOf(path) == SubSeq(path, 1, Len(path) - 1)

\* the rows of the tree in display order: the children of a collapsed node
\* are not shown
Rows(expanded) ==
    LET under(p) ==
            IF p \in expanded
            THEN [k \in 1..ChildCount(p) |-> p \o <<k>>] ELSE <<>>
        branch(p) == <<p>> \o under(p)
    IN  <<TopNode>> \o
        (IF TopNode \in expanded THEN branch(<<1>>) \o branch(<<2>>) ELSE <<>>)

\* the leaf whose screen the pop-up host shows
PresentedLeaf(ov) == CHOOSE l \in ActionNodes : ActionName(l) = ov

RowOf(rows, path) == CHOOSE i \in DOMAIN rows : rows[i] = path

\* TreeWalker(topnode): the top node has the focus; TreeWidget.__init__ sets
\* expanded = True on every MenuDisplayNode
Menu_init == [focus |-> TopNode, expanded |-> ParentNodes]

Keys == {"enter", "down", "up", "+", "right", "-", "left"}

\* TreeWidget.keypress and TreeListBox.keypress (urwid), reached through
\* `return super().keypress(size, key)`: moving, expanding and collapsing
tree_keypress(n, key) ==
    LET rows == Rows(n.expanded)
        row == RowOf(rows, n.focus)
        parent == ParentOf(n.focus)
        is_leaf == n.focus \in ActionNodes
    IN  IF key = "down" /\ row < Len(rows) THEN [n EXCEPT !.focus = rows[row + 1]]
        ELSE IF key = "up" /\ row > 1 THEN [n EXCEPT !.focus = rows[row - 1]]
        ELSE IF key \in {"+", "right"} /\ ~is_leaf
            THEN [n EXCEPT !.expanded = @ \cup {n.focus}]
        ELSE IF key = "-" /\ ~is_leaf
            THEN [n EXCEPT !.expanded = @ \ {n.focus}]
        ELSE IF key = "-" /\ is_leaf
            THEN [focus |-> parent, expanded |-> n.expanded \ {parent}]
        ELSE IF key = "left" /\ n.focus # TopNode THEN [n EXCEPT !.focus = parent]
        ELSE n

\* what one call of ActionDisplayNode.keypress did
NotConsumed ==
    [consumed |-> FALSE, called |-> 0, connected |-> 0, started |-> 0,
     opened |-> 0, logged |-> 0, propagated |-> FALSE]

\* variant: the callable is called outside the try
keypress_unguarded(key, shape, outcome) ==
    IF key # "enter" THEN NotConsumed
    ELSE IF shape = "callable"
    THEN [NotConsumed EXCEPT !.consumed = (outcome = "ok"), !.called = 1,
                             !.propagated = (outcome = "raises")]
    ELSE [NotConsumed EXCEPT !.consumed = TRUE, !.connected = 1,
                             !.started = IF shape = "widget_start" THEN 1 ELSE 0,
                             !.logged = IF shape = "widget_start" /\ outcome = "raises" THEN 1 ELSE 0,
                             !.opened = IF shape = "widget_start" /\ outcome = "raises" THEN 0 ELSE 1]

\* variant: the pop-up is opened whatever start() did
keypress_start_unchecked(key, shape, outcome) ==
    IF key # "enter" THEN NotConsumed
    ELSE IF shape = "callable"
    THEN [NotConsumed EXCEPT !.consumed = TRUE, !.called = 1,
                             !.logged = IF outcome = "raises" THEN 1 ELSE 0]
    ELSE [NotConsumed EXCEPT !.consumed = TRUE, !.connected = 1,
                             !.started = IF shape = "widget_start" THEN 1 ELSE 0,
                             !.logged = IF shape = "widget_start" /\ outcome = "raises" THEN 1 ELSE 0,
                             !.opened = 1]

\* variant: the leaf acts on every key
keypress_any_key(key, shape, outcome) ==
    IF shape = "callable"
    THEN [NotConsumed EXCEPT !.consumed = TRUE, !.called = 1,
                             !.logged = IF outcome = "raises" THEN 1 ELSE 0]
    ELSE [NotConsumed EXCEPT !.consumed = TRUE, !.connected = 1,
                             !.started = IF shape = "widget_start" THEN 1 ELSE 0,
                             !.logged = IF shape = "widget_start" /\ outcome = "raises" THEN 1 ELSE 0,
                             !.opened = IF shape = "widget_start" /\ outcome = "raises" THEN 0 ELSE 1]

\* ActionDisplayNode.keypress on a leaf whose action has the given shape
keypress(key, shape, outcome) ==
    IF key # "enter" THEN NotConsumed
    ELSE IF shape = "callable"
    THEN \* try: action()  except Exception: logging.error(...);  return None
         [NotConsumed EXCEPT !.consumed = TRUE, !.called = 1,
                             !.logged = IF outcome = "raises" THEN 1 ELSE 0]
    ELSE \* connect_signal(action, 'close', ...) comes first; start() when the
         \* action has one; a raising start() is logged and ends the call
         \* before launcher.open_pop_up(action)
         [NotConsumed EXCEPT !.consumed = TRUE, !.connected = 1,
                             !.started = IF shape = "widget_start" THEN 1 ELSE 0,
                             !.logged = IF shape = "widget_start" /\ outcome = "raises" THEN 1 ELSE 0,
                             !.opened = IF shape = "widget_start" /\ outcome = "raises" THEN 0 ELSE 1]

\* variant: the tree takes keys whatever the pop-up host shows
TreeHasFocus_always(ov) == TRUE

\* Menu.__init__ wraps the tree's frame in the pop-up host and Menu.main runs
\* the loop with pop_ups=True: while a screen is presented the keys go to it
TreeHasFocus(ov) == ov = "None"

MenuObserved(event, key, shape, outcome, result, emitted, dismissed) ==
    [event |-> event, key |-> key, shape |-> shape, outcome |-> outcome,
     result |-> result, emitted |-> emitted, dismissed |-> dismissed]

----------------------------------------------------------------------------
(* The menu session: Menu(menu).main() *)

MenuInit ==
    /\ nav = Menu_init
    /\ overlay = "None"
    /\ handlers = [l \in ActionNodes |-> 0]
    /\ obs = MenuObserved("start", "", "", "", NotConsumed, 0, 0)
    /\ session = "running"
    /\ wizard = Untracked
    /\ hn = Untracked
    /\ next_run = 0
    /\ tz = Untracked
    /\ boot = Untracked
    /\ tm = Untracked

\* Enter on the focused leaf: ActionDisplayNode.keypress
KeyEnter(shape, outcome) ==
    LET leaf == nav.focus
        r == keypress("enter", shape, outcome)
    IN  /\ session = "running"
        /\ TreeHasFocus(overlay)
        /\ leaf \in ActionNodes
        /\ shape \in ShapesOf(ActionClass(leaf))
        /\ r.connected = 1 => Sum(handlers, ActionNodes) < MaxPresentations
        /\ handlers' = IF r.connected = 1 THEN keypress_enter(handlers, leaf)
                       ELSE handlers
        /\ overlay' = IF r.opened = 1 THEN open_pop_up(overlay, ActionName(leaf))
                      ELSE overlay
        /\ session' = IF r.propagated THEN "crashed" ELSE session
        /\ obs' = MenuObserved("Enter", "enter", shape, outcome, r, 0, 0)
        /\ UNCHANGED <<nav, wizard, hn, next_run, tz, boot, tm>>

\* any other key on the focused row, and Enter on a row that is not a leaf.
\* On a parent row the key goes to TreeWidget and TreeListBox; on a leaf it
\* goes through ActionDisplayNode.keypress, and what that returns unconsumed
\* goes on to them.
TreeKey(key) ==
    /\ session = "running"
    /\ TreeHasFocus(overlay)
    /\ key = "enter" => nav.focus \in ParentNodes
    /\ \/ /\ nav.focus \in ParentNodes
          /\ nav' = tree_keypress(nav, key)
          /\ obs' = MenuObserved("Key", key, "", "", NotConsumed, 0, 0)
          /\ UNCHANGED <<overlay, handlers, session>>
       \/ /\ nav.focus \in ActionNodes
          /\ \E shape \in ShapesOf(ActionClass(nav.focus)), outcome \in Outcomes :
                LET leaf == nav.focus
                    r == keypress(key, shape, outcome)
                IN  /\ r.connected = 1 => Sum(handlers, ActionNodes) < MaxPresentations
                    /\ handlers' = IF r.connected = 1 THEN keypress_enter(handlers, leaf)
                                   ELSE handlers
                    /\ overlay' = IF r.opened = 1
                                  THEN open_pop_up(overlay, ActionName(leaf))
                                  ELSE overlay
                    /\ session' = IF r.propagated THEN "crashed" ELSE session
                    /\ nav' = IF r.consumed THEN nav ELSE tree_keypress(nav, key)
                    /\ obs' = MenuObserved("Key", key, shape, outcome, r, 0, 0)
    /\ UNCHANGED <<wizard, hn, next_run, tz, boot, tm>>

\* the presented screen emits its close signal (exit_to_menu of the manager
\* screens, finish of the wizard): every connected handler runs
ScreenClose ==
    /\ session = "running"
    /\ overlay # "None"
    /\ overlay' = emit_close(handlers[PresentedLeaf(overlay)], overlay)
    /\ obs' = MenuObserved("Close", "", "", "", NotConsumed, 1,
                           handlers[PresentedLeaf(overlay)])
    /\ UNCHANGED <<nav, handlers, session, wizard, hn, next_run, tz, boot, tm>>

\* Menu.unhandled_input: 'q' or 'Q', which the tree does not handle
QuitKey ==
    /\ session = "running"
    /\ TreeHasFocus(overlay)
    /\ session' = "quit"
    /\ obs' = MenuObserved("Quit", "q", "", "", NotConsumed, 0, 0)
    /\ UNCHANGED <<nav, overlay, handlers, wizard, hn, next_run, tz, boot, tm>>

MenuNext ==
    \/ \E shape \in Shapes, outcome \in Outcomes : KeyEnter(shape, outcome)
    \/ \E key \in Keys : TreeKey(key)
    \/ ScreenClose
    \/ QuitKey

MenuSpec == MenuInit /\ [][MenuNext]_vars

----------------------------------------------------------------------------
(* Menu and pop-up host: claims (under MenuSpec) *)

\* C11: from the Enter that presents a leaf's screen until its close signal
\* has been handled, the tree view (focused node, expanded nodes; the tree's
\* structure is fixed) never changes, and the close leaves the pop-up host
\* without a screen: the base view is the one the operator left.
C11_OverlayRoundTrip ==
    [][/\ (obs'.event = "Enter" /\ obs'.result.opened = 1) => nav' = nav
       /\ (overlay # "None" /\ obs'.event # "Close") => nav' = nav /\ overlay' = overlay
       /\ obs'.event = "Close" => nav' = nav /\ overlay' = "None"]_vars

C11_Witness ==
    /\ obs.event = "Close"
    /\ obs.dismissed >= 1
    /\ overlay = "None"
    /\ nav.focus = <<2, 2>>
    /\ nav.expanded = {TopNode, <<2>>}

\* C12: the pop-up host holds no screen or the screen of one leaf, and a
\* screen is only ever presented while the host holds none.
C12_AtMostOneOverlay ==
    [][/\ overlay' \in {"None"} \cup {ActionName(l) : l \in ActionNodes}
       /\ (obs'.event = "Enter" /\ obs'.result.opened = 1)
              => overlay = "None" /\ overlay' = ActionName(nav.focus)]_vars

C12_Witness ==
    /\ obs.event = "Enter"
    /\ obs.result.opened = 1
    /\ overlay = "Configure System Time"
    /\ handlers[<<2, 1>>] = 1

\* C13: Enter on a leaf whose callable raises: nothing propagates out of
\* keypress (the session keeps running, the key is consumed), no pop-up is
\* opened, focus and expansion are unchanged, exactly one failure is logged.
C13_CallableFailureContained ==
    [][(obs'.event = "Enter" /\ obs'.shape = "callable" /\ obs'.outcome = "raises")
       => /\ ~obs'.result.propagated
          /\ obs'.result.consumed
          /\ session' = "running"
          /\ obs'.result.opened = 0
          /\ overlay' = "None"
          /\ nav' = nav
          /\ obs'.result.logged = 1]_vars

C13_Witness ==
    /\ obs.event = "Enter"
    /\ obs.shape = "callable"
    /\ obs.outcome = "raises"
    /\ obs.result.called = 1
    /\ nav.focus = <<2, 4>>

\* C14: Enter on a leaf whose screen has a start() hook that raises:
\* open_pop_up is not called, the host stays without a screen, the failure is
\* logged, the session keeps running with the tree view as it was.
C14_StartFailureAborts ==
    [][(obs'.event = "Enter" /\ obs'.shape = "widget_start" /\ obs'.outcome = "raises")
       => /\ obs'.result.started = 1
          /\ obs'.result.opened = 0
          /\ overlay' = "None"
          /\ obs'.result.logged = 1
          /\ ~obs'.result.propagated
          /\ session' = "running"
          /\ nav' = nav]_vars

C14_Witness ==
    /\ obs.event = "Enter"
    /\ obs.shape = "widget_start"
    /\ obs.outcome = "raises"
    /\ obs.result.started = 1
    /\ overlay = "None"
    /\ nav.focus = <<1, 1>>

----------------------------------------------------------------------------
(* TimezoneManager *)

Zones == {"UTC", "Asia/Seoul"}

InitialZone == "UTC"

\* how `timedatectl show --property=Timezone` ends: with the line, or with a
\* non-zero exit or a missing command, which get_current_timezone catches
Reads == {"ok", "fails"}

\* how tzselect ends: a zone on its last line, a non-zero exit, the command
\* is not installed (FileNotFoundError), exit 0 without any output
Picks == {"ok", "nonzero", "missing", "no_output"}

\* how `sudo timedatectl set-timezone` ends
Sets == {"ok", "nonzero", "missing"}

get_current_timezone(system, read) ==
    IF read = "ok" THEN system ELSE "Failed to Determine Timezone"

\* TimezoneManager.create_layout
timezone_create_layout(t) ==
    [t EXCEPT !.pile = <<"current_timezone_padded", "Divider", "Set Timezone">>
                       \o (IF ~t.setup_wizard THEN <<"Back", "Reboot">> ELSE <<>>)]

TimezoneManager_init(flag, system, read) ==
    LET zone == get_current_timezone(system, read)
    IN  timezone_create_layout(
            [setup_wizard |-> flag, system |-> system, current_timezone |-> zone,
             current_timezone_show |-> zone, success_message |-> "None",
             screen |-> "started", screen_calls |-> <<>>, pile |-> <<>>])

\* TimezoneManager.reset_layout: the pile is cleared and rebuilt around a
\* message that names the timezone read back
reset_layout(t, read) ==
    LET zone == get_current_timezone(t.system, read)
    IN  [t EXCEPT !.current_timezone = zone,
                  !.current_timezone_show = zone,
                  !.success_message = zone,
                  !.pile = <<"Text()", "current_timezone_padded", "Text()",
                             "success_message_padded", "Text()", "Set Timezone">>
                           \o (IF ~t.setup_wizard THEN <<"Back", "Reboot">> ELSE <<>>)]

\* the exception select_timezone's try block ends with, "None" without one
select_timezone_raises(pick, set) ==
    IF pick = "nonzero" THEN "CalledProcessError"
    ELSE IF pick = "missing" THEN "FileNotFoundError"
    ELSE IF pick = "no_output" THEN "IndexError"
    ELSE IF set = "nonzero" THEN "CalledProcessError"
    ELSE IF set = "missing" THEN "FileNotFoundError"
    ELSE "None"

\* variant: screen.start() and reset_layout() follow the try statement instead
\* of standing in its finally block
select_timezone_no_finally(t, pick, zone, set, read, read_again) ==
    LET raised == select_timezone_raises(pick, set)
        stopped == [t EXCEPT !.screen = "stopped", !.screen_calls = <<"stop">>]
        tried ==
            IF raised = "None"
            THEN [stopped EXCEPT !.system = zone,
                                 !.current_timezone = get_current_timezone(zone, read)]
            ELSE IF raised = "CalledProcessError"
            THEN [stopped EXCEPT !.pile = Append(@, "error_text")]
            ELSE stopped
    IN  IF raised \in {"None", "CalledProcessError"}
        THEN reset_layout([tried EXCEPT !.screen = "started",
                                        !.screen_calls = Append(@, "start")], read_again)
        ELSE tried

\* TimezoneManager.select_timezone: try, except CalledProcessError, finally.
\* screen_calls lists the calls this run makes on main_loop.screen.
select_timezone(t, pick, zone, set, read, read_again) ==
    LET raised == select_timezone_raises(pick, set)
        stopped == [t EXCEPT !.screen = "stopped", !.screen_calls = <<"stop">>]
        tried ==
            IF raised = "None"
            THEN [stopped EXCEPT !.system = zone,
                                 !.current_timezone = get_current_timezone(zone, read)]
            ELSE IF raised = "CalledProcessError"
            THEN [stopped EXCEPT !.pile = Append(@, "error_text")]
            ELSE stopped
    IN  reset_layout([tried EXCEPT !.screen = "started",
                                   !.screen_calls = Append(@, "start")], read_again)

\* an exception of the try block that `except CalledProcessError` lets through
select_timezone_propagates(pick, set) ==
    select_timezone_raises(pick, set) \notin {"None", "CalledProcessError"}

\* TimezoneManager.reboot_system: `sudo reboot` exited non-zero
timezone_reboot_failed(t) == [t EXCEPT !.pile = Insert(@, 1, RebootFailedText)]

TzObserved(event, pick, set, exit) ==
    [event |-> event, pick |-> pick, set |-> set, exit |-> exit]

----------------------------------------------------------------------------
(* A session on the timezone screen: the "Configure System Timezone" leaf  *)
(* when the flag is off, the wizard's timezone step when it is on          *)

\* the name of the leaf that presents the screen from the menu
TimezoneLeaf == ActionName(<<2, 2>>)

\* the wizard shows its timezone step in its own body, the menu presents the
\* leaf's screen in the pop-up host
TimezoneShown == tz.setup_wizard \/ overlay = TimezoneLeaf

\* Enter on the leaf: ActionDisplayNode.keypress presents the screen
TimezoneEnter ==
    /\ session = "running"
    /\ ~tz.setup_wizard
    /\ TreeHasFocus(overlay)
    /\ overlay' = open_pop_up(overlay, TimezoneLeaf)
    /\ obs' = TzObserved("Enter", "", "", 0)
    /\ UNCHANGED <<tz, session, handlers, wizard, hn, next_run, nav, boot, tm>>

TimezoneInit ==
    \E flag \in BOOLEAN, read \in Reads :
        /\ tz = TimezoneManager_init(flag, InitialZone, read)
        /\ obs = TzObserved("start", "", "", 0)
        /\ session = "running"
        /\ overlay = IF flag THEN "None" ELSE TimezoneLeaf
        /\ handlers = Untracked
        /\ wizard = Untracked
        /\ hn = Untracked
        /\ next_run = 0
        /\ nav = Untracked
        /\ boot = Untracked
        /\ tm = Untracked

\* the Set Timezone button; an exception that select_timezone does not catch
\* unwinds through the button press and MainLoop.run
SetTimezone_clicked(pick, zone, set, read, read_again) ==
    /\ session = "running"
    /\ TimezoneShown
    /\ "Set Timezone" \in Range(tz.pile)
    /\ tz' = select_timezone(tz, pick, zone, set, read, read_again)
    /\ session' = IF select_timezone_propagates(pick, set) THEN "crashed" ELSE session
    /\ obs' = TzObserved("Set Timezone", pick, IF pick = "ok" THEN set ELSE "", 0)
    /\ UNCHANGED <<overlay, handlers, wizard, hn, next_run, nav, boot, tm>>

\* the Back button: TimezoneManager.exit_to_menu
TimezoneBack ==
    /\ session = "running"
    /\ TimezoneShown
    /\ "Back" \in Range(tz.pile)
    /\ overlay' = close_pop_up(overlay)
    /\ tz' = timezone_create_layout(tz)
    /\ obs' = TzObserved("Back", "", "", 0)
    /\ UNCHANGED <<session, handlers, wizard, hn, next_run, nav, boot, tm>>

\* the Reboot button: TimezoneManager.reboot_system
TimezoneReboot(exit) ==
    /\ session = "running"
    /\ TimezoneShown
    /\ "Reboot" \in Range(tz.pile)
    /\ exit # 0 => Count(tz.pile, RebootFailedText) < MaxRebootFailures
    /\ tz' = IF exit = 0 THEN tz ELSE timezone_reboot_failed(tz)
    /\ session' = IF exit = 0 THEN "rebooted" ELSE session
    /\ obs' = TzObserved("Reboot", "", "", exit)
    /\ UNCHANGED <<overlay, handlers, wizard, hn, next_run, nav, boot, tm>>

\* 'q' or 'Q' on a button: Menu.unhandled_input
TimezoneQuit ==
    /\ session = "running"
    /\ session' = "quit"
    /\ obs' = TzObserved("Quit", "", "", 0)
    /\ UNCHANGED <<tz, overlay, handlers, wizard, hn, next_run, nav, boot, tm>>

TimezoneNext ==
    \/ TimezoneEnter
    \/ \E pick \in Picks, zone \in Zones, set \in Sets, read \in Reads, read_again \in Reads :
           SetTimezone_clicked(pick, zone, set, read, read_again)
    \/ TimezoneBack
    \/ \E exit \in ExitCodes : TimezoneReboot(exit)
    \/ TimezoneQuit

TimezoneSpec == TimezoneInit /\ [][TimezoneNext]_vars

----------------------------------------------------------------------------
(* Session survival *)

\* C15: whatever an external command or read an event triggers does, the
\* session keeps running; it ends only by the quit key or by a reboot that
\* succeeded.
C15_SessionSurvives ==
    /\ session \in {"running", "quit", "rebooted"}
    /\ session = "quit" => obs.event = "Quit"
    /\ session = "rebooted" => obs.event = "Reboot" /\ obs.exit = 0

----------------------------------------------------------------------------
(* Startup: tui.py check_network_interfaces and main *)

\* entries of /etc/procentric/network_ports
MaxPorts == 3

\* the substring check_network_interfaces looks for
eth == <<"e", "t", "h">>

\* `sub in text` for Python strings
contains(sub, text) ==
    \E i \in 0..(Len(text) - Len(sub)) : SubSeq(text, i + 1, i + Len(sub)) = sub

PortNames == {<<"e", "t", "h", "0">>, <<"e", "n", "o", "1">>, <<"l", "o">>}

\* one entry of the file as dotenv_values reads it: KEY=value, or a key
\* without '=', whose value is None
Entries == [has_value : {TRUE}, value : PortNames] \cup {[has_value |-> FALSE, value |-> <<>>]}

\* the file: absent, present but not readable by the user, or present with
\* up to MaxPorts entries
Sources ==
    {[kind |-> "absent", entries |-> <<>>], [kind |-> "unreadable", entries |-> <<>>]}
    \cup {[kind |-> "present", entries |-> e] :
             e \in UNION {[1..n -> Entries] : n \in 0..MaxPorts}}

\* dotenv_values(path): no file gives an empty dict; open() of a file the
\* user may not read raises PermissionError
dotenv_values(source) ==
    IF source.kind = "unreadable" THEN [raises |-> "PermissionError", values |-> <<>>]
    ELSE [raises |-> "None", values |-> source.entries]

\* variant: the check looks for a value without the substring
RECURSIVE any_not_eth(_)
any_not_eth(values) ==
    IF values = <<>> THEN "False"
    ELSE IF ~Head(values).has_value THEN "TypeError"
    ELSE IF ~contains(eth, Head(values).value) THEN "True"
    ELSE any_not_eth(Tail(values))

\* any("eth" in x for x in values): left to right, stops at the first True;
\* `"eth" in None` raises TypeError
RECURSIVE any_eth(_)
any_eth(values) ==
    IF values = <<>> THEN "False"
    ELSE IF ~Head(values).has_value THEN "TypeError"
    ELSE IF contains(eth, Head(values).value) THEN "True"
    ELSE any_eth(Tail(values))

\* check_network_interfaces: "True", "False", or the exception that neither
\* `except CalledProcessError` nor `except FileNotFoundError` catches
check_network_interfaces(source) ==
    LET read == dotenv_values(source)
    IN  IF read.raises # "None" THEN read.raises ELSE any_eth(read.values)

\* main: the wizard in first-boot mode replaces the menu's view when the
\* check returns True; an exception of the check ends main before the loop
main(source) ==
    LET found == check_network_interfaces(source)
    IN  IF found = "True" THEN "SetupWizard(initial_setup=True)"
        ELSE IF found = "False" THEN "Menu"
        ELSE "aborted"

BootInit ==
    \E source \in Sources :
        /\ boot = [source |-> source, view |-> "starting"]
        /\ session = "starting"
        /\ obs = Untracked
        /\ overlay = "None"
        /\ handlers = Untracked
        /\ wizard = Untracked
        /\ hn = Untracked
        /\ next_run = 0
        /\ nav = Untracked
        /\ tz = Untracked
        /\ tm = Untracked

\* python -m ... : main() up to menu_instance.main()
Startup ==
    /\ session = "starting"
    /\ boot' = [boot EXCEPT !.view = main(boot.source)]
    /\ session' = IF main(boot.source) = "aborted" THEN "crashed" ELSE "running"
    /\ UNCHANGED <<obs, overlay, handlers, wizard, hn, next_run, nav, tz, tm>>

BootNext == Startup

BootSpec == BootInit /\ [][BootNext]_vars

----------------------------------------------------------------------------
(* Startup: claims (under BootSpec) *)

Started == boot.view # "starting"

Present == boot.source.kind = "present"

PortEntries == boot.source.entries

SomeValueHasEth ==
    \E i \in DOMAIN PortEntries :
        PortEntries[i].has_value /\ contains(eth, PortEntries[i].value)

\* an entry with the substring that the scan reaches: no key without a value
\* comes before it
EthReached ==
    \E i \in DOMAIN PortEntries :
        /\ PortEntries[i].has_value /\ contains(eth, PortEntries[i].value)
        /\ \A j \in 1..(i - 1) : PortEntries[j].has_value

AllHaveValues == \A i \in DOMAIN PortEntries : PortEntries[i].has_value

C17_CheckFailureShowsMenu ==
    (Started /\ (~Present \/ ~AllHaveValues)) =>
        boot.view = "Menu" /\ session = "running"

----------------------------------------------------------------------------
(* HostnameManager.submit_hostname: claims (under Spec) *)

\* the Submit button of the hostname screen was pressed in this step
HostnameSubmitted == obs'.event = "HostnameSubmit" /\ "Submit" \in ButtonsOf(hn.pile)

\* what the operator had typed, trimmed
TypedHostname == strip(hn.hostname_input)

HostnameUnchanged ==
    /\ hn'.current_hostname = hn.current_hostname
    /\ hn'.current_hostname_display = hn.current_hostname_display

\* C18: Submit with an input that is empty once trimmed: the validation
\* message is shown, the command is not run, hostname and display are
\* unchanged, and the input field is empty afterwards.
C18_EmptySubmitClearsField ==
    [][(HostnameSubmitted /\ TypedHostname = <<>>)
       => /\ "Please provide a valid hostname." \in Range(hn'.pile)
          /\ obs'.set_hostname_runs = 0
          /\ HostnameUnchanged
          /\ hn'.hostname_input = <<>>]_vars

\* C19: Submit with the current hostname as input: a "same as current"
\* message is shown, the command is not run, the hostname is unchanged.
C19_SameHostnameRejected ==
    [][(HostnameSubmitted /\ TypedHostname # <<>> /\ TypedHostname = hn.current_hostname)
       => /\ "Hostname is the same as the current one." \in Range(hn'.pile)
          /\ obs'.set_hostname_runs = 0
          /\ HostnameUnchanged]_vars

\* C20: Submit with a non-empty input other than the current hostname runs
\* the command; on exit 0 hostname and display become the (trimmed) input and
\* a confirmation is shown, on a non-zero exit both are unchanged and an
\* error is shown.  The display starts as the initial hostname and changes
\* only in a Submit whose command succeeded, to that Submit's input.
C20_SubmitFollowsExitStatus ==
    [][/\ (HostnameSubmitted /\ TypedHostname # <<>> /\ TypedHostname # hn.current_hostname)
          => /\ obs'.set_hostname_runs = 1
             /\ IF obs'.exit = 0
                THEN /\ hn'.current_hostname = TypedHostname
                     /\ hn'.current_hostname_display = TypedHostname
                     /\ Range(hn'.pile) \cap {"Hostname changed. Please reboot.",
                                             "Hostname changed. Please click Next"} # {}
                ELSE /\ HostnameUnchanged
                     /\ "Failed to change hostname" \in Range(hn'.pile)
       /\ obs.event = "start" => hn.current_hostname_display = InitialHostname
       /\ hn.current_hostname_display = hn.current_hostname
       /\ hn'.current_hostname_display # hn.current_hostname_display
          => /\ HostnameSubmitted
             /\ obs'.set_hostname_runs = 1
             /\ obs'.exit = 0
             /\ hn'.current_hostname_display = TypedHostname]_vars

C20_Witness ==
    /\ obs.event = "HostnameSubmit"
    /\ obs.set_hostname_runs = 1
    /\ obs.exit = 0
    /\ hn.current_hostname_display = <<"a", "a">>
    /\ hn.current_hostname = <<"a", "a">>

\* C21: after a Submit with a non-empty input the field is empty, whether
\* the command exited 0 or not.
C21_SubmitClearsField ==
    [][(HostnameSubmitted /\ TypedHostname # <<>>) => hn'.hostname_input = <<>>]_vars

----------------------------------------------------------------------------
(* TimeManager *)

\* Texts of the time field and of the current time: a shape and, for what is
\* typed as a date and time, the fields that decide whether it parses.
\* "status" is the text of timedatectl's "Local time" line, "spaced" a typed
\* text with blanks around it.
TimeText(shape, spaced, month, day, hour) ==
    [shape |-> shape, spaced |-> spaced, month |-> month, day |-> day, hour |-> hour]

EmptyTime == TimeText("empty", FALSE, 0, 0, 0)

LocalTime == TimeText("status", FALSE, 0, 0, 0)

FailedTime == TimeText("Failed to Determine Time", FALSE, 0, 0, 0)

TypedTimes ==
    {TimeText("datetime", sp, m, d, h) :
        sp \in BOOLEAN, m \in {2, 12, 13}, d \in {28, 30}, h \in {23, 99}}
    \cup {EmptyTime}

\* str.strip() on a text of the time field
time_strip(text) == [text EXCEPT !.spaced = FALSE]

\* datetime.strptime(text, "%Y-%m-%d %H:%M:%S") returns (TRUE) or raises
\* ValueError (FALSE); the year of the typed texts is 2024
strptime(text) ==
    /\ text.shape = "datetime"
    /\ ~text.spaced
    /\ text.month \in 1..12
    /\ text.day \in 1..(IF text.month = 2 THEN 29 ELSE 31)
    /\ text.hour \in 0..23

\* how `timedatectl status` ends: with a "Local time" line, with a non-zero
\* exit, the command is missing, exit 0 without a "Local time" line
TimeReads == {"ok", "nonzero", "missing", "no_line"}

\* TimeManager.get_current_time: the text, or the exception it lets through
get_current_time(read) ==
    IF read = "ok" THEN [raises |-> "None", value |-> LocalTime]
    ELSE IF read = "no_line" THEN [raises |-> "UnboundLocalError", value |-> EmptyTime]
    ELSE [raises |-> "None", value |-> FailedTime]

\* how `timedatectl show --property=NTP` ends
NtpReads == {"yes", "no", "unexpected", "nonzero", "missing"}

\* TimeManager.check_ntp_status: except CalledProcessError only
check_ntp_status(read) ==
    IF read = "missing" THEN [raises |-> "FileNotFoundError", value |-> FALSE]
    ELSE [raises |-> "None", value |-> (read = "yes")]

\* TimeManager.create_layout
time_create_layout(flag) ==
    <<"time_input", "current_time_padded", "Divider", "ntp_toggle", "Divider",
      "response_widget", "Divider", "Submit">>
    \o (IF ~flag THEN <<"Back", "Reboot">> ELSE <<>>)

\* TimeManager.__init__, when neither read raises
TimeManager_init(flag, time_read, ntp_read) ==
    LET now == get_current_time(time_read).value
    IN  [built |-> TRUE, setup_wizard |-> flag, current_time |-> now,
         current_time_show |-> now, ntp_enabled |-> check_ntp_status(ntp_read).value,
         time_input |-> now, response |-> "", pile |-> time_create_layout(flag)]

\* the exception that ends TimeManager.__init__, "None" without one
TimeManager_init_raises(time_read, ntp_read) ==
    IF get_current_time(time_read).raises # "None" THEN get_current_time(time_read).raises
    ELSE check_ntp_status(ntp_read).raises

\* how `sudo timedatectl set-ntp` and `sudo timedatectl set-time` end
CommandEnds == {"ok", "nonzero", "missing"}

\* The steps of TimeManager.submit.  The three switches are on in the
\* program: strptime validates the text, set-ntp runs before the text is
\* looked at, the finally block clears the field after every outcome.
\* How the try block ends:
\*   "ntp_missing", "time_missing"  FileNotFoundError, caught nowhere
\*   "ntp_failed", "time_failed"    CalledProcessError
\*   "invalid", "invalid_early"     ValueError from strptime
\*   "ntp_applied"                  NTP is enabled: the text is not looked at
\*   "time_set"                     set-time exited 0
submit_steps(t, ntp, set, validates, ntp_first, clears_always) ==
    LET new_time == time_strip(t.time_input)
        bad == validates /\ ~strptime(new_time)
        ends == IF ~ntp_first /\ ~t.ntp_enabled /\ bad THEN "invalid_early"
                ELSE IF ntp = "missing" THEN "ntp_missing"
                ELSE IF ntp = "nonzero" THEN "ntp_failed"
                ELSE IF t.ntp_enabled THEN "ntp_applied"
                ELSE IF bad THEN "invalid"
                ELSE IF set = "missing" THEN "time_missing"
                ELSE IF set = "nonzero" THEN "time_failed"
                ELSE "time_set"
        response ==
            IF ends = "ntp_missing" THEN ""
            ELSE IF ends \in {"ntp_failed", "time_failed"} THEN "Error updating system settings"
            ELSE IF ends \in {"invalid", "invalid_early"} THEN "Failed to set time: Invalid format."
            ELSE IF ends = "time_set" THEN "Time successfully changed"
            ELSE "NTP synchronization applied"
        cleared == ~t.ntp_enabled /\ (clears_always \/ ends = "time_set")
    IN  [ends |-> ends, ntp_end |-> ntp, set_end |-> set,
         commands |-> (IF ends = "invalid_early" THEN <<>> ELSE <<"set-ntp">>)
                      \o (IF ends \in {"time_missing", "time_failed", "time_set"}
                          THEN <<"set-time">> ELSE <<>>),
         set_ntp_arg |-> t.ntp_enabled,
         set_time_arg |-> new_time,
         propagates |-> ends \in {"ntp_missing", "time_missing"},
         tm |-> [t EXCEPT !.response = response,
                          !.current_time = IF ends = "time_set" THEN new_time ELSE @,
                          !.current_time_show = IF ends = "time_set" THEN new_time ELSE @,
                          !.time_input = IF cleared THEN EmptyTime ELSE @]]

\* variant: the text is passed to set-time without strptime
submit_unvalidated(t, ntp, set) == submit_steps(t, ntp, set, FALSE, TRUE, TRUE)

\* variant: the text is validated before set-ntp runs
submit_validate_first(t, ntp, set) == submit_steps(t, ntp, set, TRUE, FALSE, TRUE)

\* variant: the field is cleared only when the time was set
submit_keep_on_failure(t, ntp, set) == submit_steps(t, ntp, set, TRUE, TRUE, FALSE)

\* TimeManager.submit
submit(t, ntp, set) == submit_steps(t, ntp, set, TRUE, TRUE, TRUE)

\* TimeManager.toggle_ntp
toggle_ntp(t, state) ==
    [t EXCEPT !.ntp_enabled = state, !.response = "NTP status set (Pending Submit)"]

\* TimeManager.reboot_system: `sudo reboot` exited non-zero
time_reboot_failed(t) == [t EXCEPT !.pile = Insert(@, 1, RebootFailedText)]

TmObserved(event, result) ==
    [event |-> event, ends |-> result.ends, ntp_end |-> result.ntp_end,
     set_end |-> result.set_end, commands |-> result.commands,
     set_ntp_arg |-> result.set_ntp_arg, set_time_arg |-> result.set_time_arg]

\* a handler that ran no command
NoCommands ==
    [ends |-> "", ntp_end |-> "", set_end |-> "", commands |-> <<>>,
     set_ntp_arg |-> FALSE, set_time_arg |-> EmptyTime]

----------------------------------------------------------------------------
(* A session on the time screen: the "Configure System Time" leaf when the *)
(* flag is off, the wizard's time step when it is on                       *)

TimeLeaf == ActionName(<<2, 3>>)

\* before TimeManager(...) has run
NotBuilt ==
    [built |-> FALSE, setup_wizard |-> FALSE, current_time |-> EmptyTime,
     current_time_show |-> EmptyTime, ntp_enabled |-> FALSE,
     time_input |-> EmptyTime, response |-> "", pile |-> <<>>]

TimeShown == tm.built /\ (tm.setup_wizard \/ overlay = TimeLeaf)

TimeInit ==
    /\ tm = NotBuilt
    /\ obs = TmObserved("start", NoCommands)
    /\ session = "starting"
    /\ overlay = "None"
    /\ handlers = Untracked
    /\ wizard = Untracked
    /\ hn = Untracked
    /\ next_run = 0
    /\ nav = Untracked
    /\ tz = Untracked
    /\ boot = Untracked

\* TimeManager(setup_wizard=flag): an exception of __init__ unwinds through
\* the module or the wizard that builds the screen
TimeConstruct(flag, time_read, ntp_read) ==
    LET raises == TimeManager_init_raises(time_read, ntp_read)
    IN  /\ session = "starting"
        /\ tm' = IF raises = "None" THEN TimeManager_init(flag, time_read, ntp_read)
                 ELSE tm
        /\ session' = IF raises = "None" THEN "running" ELSE "crashed"
        /\ obs' = TmObserved("Construct", [NoCommands EXCEPT !.ends = time_read,
                                                        !.ntp_end = ntp_read])
        /\ UNCHANGED <<overlay, handlers, wizard, hn, next_run, nav, tz, boot>>

\* Enter on the leaf: ActionDisplayNode.keypress presents the screen
TimeEnter ==
    /\ session = "running"
    /\ ~tm.setup_wizard
    /\ TreeHasFocus(overlay)
    /\ overlay' = open_pop_up(overlay, TimeLeaf)
    /\ obs' = TmObserved("Enter", NoCommands)
    /\ UNCHANGED <<tm, session, handlers, wizard, hn, next_run, nav, tz, boot>>

\* the operator types in the time field
TimeEdit(text) ==
    /\ session = "running"
    /\ TimeShown
    /\ text # tm.time_input
    /\ tm' = [tm EXCEPT !.time_input = text]
    /\ obs' = TmObserved("Edit", NoCommands)
    /\ UNCHANGED <<session, overlay, handlers, wizard, hn, next_run, nav, tz, boot>>

\* the Enable NTP checkbox changes state: TimeManager.toggle_ntp
TimeToggle ==
    /\ session = "running"
    /\ TimeShown
    /\ tm' = toggle_ntp(tm, ~tm.ntp_enabled)
    /\ obs' = TmObserved("Toggle", NoCommands)
    /\ UNCHANGED <<session, overlay, handlers, wizard, hn, next_run, nav, tz, boot>>

\* the Submit button: TimeManager.submit
TimeSubmit(ntp, set) ==
    LET result == submit(tm, ntp, set)
    IN  /\ session = "running"
        /\ TimeShown
        /\ tm' = result.tm
        /\ session' = IF result.propagates THEN "crashed" ELSE session
        /\ obs' = TmObserved("Submit", result)
        /\ UNCHANGED <<overlay, handlers, wizard, hn, next_run, nav, tz, boot>>

\* the Back button: TimeManager.exit_to_menu
TimeBack ==
    /\ session = "running"
    /\ TimeShown
    /\ "Back" \in Range(tm.pile)
    /\ tm' = [tm EXCEPT !.pile = time_create_layout(tm.setup_wizard)]
    /\ overlay' = close_pop_up(overlay)
    /\ obs' = TmObserved("Back", NoCommands)
    /\ UNCHANGED <<session, handlers, wizard, hn, next_run, nav, tz, boot>>

\* the Reboot button: TimeManager.reboot_system
TimeReboot(exit) ==
    /\ session = "running"
    /\ TimeShown
    /\ "Reboot" \in Range(tm.pile)
    /\ exit # 0 => Count(tm.pile, RebootFailedText) < MaxRebootFailures
    /\ tm' = IF exit = 0 THEN tm ELSE time_reboot_failed(tm)
    /\ session' = IF exit = 0 THEN "rebooted" ELSE session
    /\ obs' = TmObserved("Reboot", NoCommands)
    /\ UNCHANGED <<overlay, handlers, wizard, hn, next_run, nav, tz, boot>>

TimeNext ==
    \/ \E flag \in BOOLEAN, time_read \in TimeReads, ntp_read \in NtpReads :
           TimeConstruct(flag, time_read, ntp_read)
    \/ TimeEnter
    \/ \E text \in TypedTimes : TimeEdit(text)
    \/ TimeToggle
    \/ \E ntp \in CommandEnds, set \in CommandEnds : TimeSubmit(ntp, set)
    \/ TimeBack
    \/ \E exit \in ExitCodes : TimeReboot(exit)

TimeSpec == TimeInit /\ [][TimeNext]_vars

----------------------------------------------------------------------------
(* TimeManager: claims (under TimeSpec) *)

\* the Submit button of the time screen was pressed in this step
TimeSubmitted == obs'.event = "Submit" /\ TimeShown

\* the text of the time field, trimmed, does not parse as a date and time
InvalidTime == ~strptime(time_strip(tm.time_input))

TimeUnchanged ==
    /\ tm'.current_time = tm.current_time
    /\ tm'.current_time_show = tm.current_time_show

\* C22 as stated: Submit with a text that is not a valid date and time shows
\* a validation error, never runs set-time, and leaves the current time and
\* its display unchanged.
C22_InvalidTimeRejected ==
    [][(TimeSubmitted /\ InvalidTime)
       => /\ tm'.response = "Failed to set time: Invalid format."
          /\ \A i \in DOMAIN obs'.commands : obs'.commands[i] # "set-time"
          /\ TimeUnchanged]_vars

\* C22 amended: such a Submit never runs set-time and leaves the current
\* time and its display unchanged; the validation error is shown when NTP is
\* disabled and set-ntp exited 0.  With NTP enabled the text is not looked
\* at, and a set-ntp that exits non-zero is reported instead.
C22_InvalidTimeRejectedNtpOff ==
    [][(TimeSubmitted /\ InvalidTime)
       => /\ \A i \in DOMAIN obs'.commands : obs'.commands[i] # "set-time"
          /\ TimeUnchanged
          /\ (~tm.ntp_enabled /\ obs'.ntp_end = "ok")
                => tm'.response = "Failed to set time: Invalid format."
          /\ (tm.ntp_enabled /\ obs'.ntp_end = "ok")
                => tm'.response = "NTP synchronization applied"
          /\ obs'.ntp_end = "nonzero"
                => tm'.response = "Error updating system settings"]_vars

C22_Witness ==
    /\ obs.event = "Submit"
    /\ obs.ends = "invalid"
    /\ obs.set_time_arg.month = 13
    /\ obs.commands = <<"set-ntp">>
    /\ tm.response = "Failed to set time: Invalid format."
    /\ tm.current_time = LocalTime

\* the Submit of this step failed: a validation error, or a non-zero exit of
\* set-ntp or set-time
SubmitFailed ==
    \/ obs'.ntp_end = "nonzero"
    \/ obs'.ntp_end = "ok" /\ ~tm.ntp_enabled /\ (InvalidTime \/ obs'.set_end = "nonzero")

SubmitSucceeded ==
    /\ obs'.ntp_end = "ok"
    /\ tm.ntp_enabled \/ (~InvalidTime /\ obs'.set_end = "ok")

C26_TimeReadFailureGivesSentinel ==
    (/\ obs.event = "Construct"
     /\ obs.ends \in {"nonzero", "no_line"}
     /\ obs.ntp_end # "missing")
    => /\ session = "running"
       /\ tm.built
       /\ tm.current_time = FailedTime
       /\ tm.current_time_show = FailedTime

\* C30: every Submit runs set-ntp first, with the checkbox state, whatever
\* the text of the field; set-time runs only after it, with the trimmed text,
\* and only when NTP is disabled, set-ntp exited 0 and the text parses; a
\* change of the checkbox runs no command.
C30_SetNtpFirst ==
    [][/\ TimeSubmitted
          => /\ Len(obs'.commands) >= 1
             /\ obs'.commands[1] = "set-ntp"
             /\ obs'.set_ntp_arg = tm.ntp_enabled
             /\ \A i \in DOMAIN obs'.commands : obs'.commands[i] = "set-time"
                   => /\ i = 2
                      /\ ~tm.ntp_enabled
                      /\ obs'.ntp_end = "ok"
                      /\ ~InvalidTime
                      /\ obs'.set_time_arg = time_strip(tm.time_input)
       /\ obs'.event = "Toggle"
          => /\ obs'.commands = <<>>
             /\ tm'.ntp_enabled = ~tm.ntp_enabled
             /\ TimeUnchanged]_vars

C30_Witness ==
    /\ obs.event = "Submit"
    /\ obs.commands = <<"set-ntp", "set-time">>
    /\ obs.set_ntp_arg = FALSE
    /\ obs.set_time_arg = TimeText("datetime", FALSE, 12, 30, 23)
    /\ tm.current_time = TimeText("datetime", FALSE, 12, 30, 23)

----------------------------------------------------------------------------
(* TimezoneManager: claims (under TimezoneSpec) *)

\* C24: when tzselect or set-timezone exits non-zero, the screen the handler
\* leaves shows the failure text and no confirmation, and the displayed
\* current timezone is unchanged.
C24_TimezoneFailureShown ==
    [][(/\ obs'.event = "Set Timezone"
        /\ obs'.pick = "nonzero" \/ (obs'.pick = "ok" /\ obs'.set = "nonzero"))
       => /\ "error_text" \in Range(tz'.pile)
          /\ "success_message_padded" \notin Range(tz'.pile)
          /\ tz'.current_timezone_show = tz.current_timezone_show]_vars

\* C25: a run of Set Timezone stops the screen driver once and starts it once
\* after that, whatever tzselect and set-timezone do (also when they cannot be
\* launched and the exception leaves the handler); between events the driver
\* is started.
C25_ScreenStopStartPaired ==
    [][/\ tz.screen = "started"
       /\ tz'.screen = "started"
       /\ obs'.event = "Set Timezone" => tz'.screen_calls = <<"stop", "start">>
       /\ obs'.event # "Set Timezone" => tz'.screen_calls = tz.screen_calls]_vars

C25_Witness ==
    /\ obs.event = "Set Timezone"
    /\ obs.pick = "missing"
    /\ session = "crashed"
    /\ tz.screen = "started"
    /\ tz.screen_calls = <<"stop", "start">>

----------------------------------------------------------------------------
(* Leaf dispatch: claim (under MenuSpec) *)

\* C29: a key other than Enter pressed on a focused leaf calls nothing,
\* starts nothing, subscribes nothing and opens nothing, and the tree view
\* handles it as TreeWidget and TreeListBox do; Enter on a leaf whose action
\* is a callable or a screen is consumed and the tree view does not see it.
C29_OnlyEnterDispatches ==
    [][/\ (obs'.event = "Key" /\ nav.focus \in ActionNodes)
          => /\ obs'.key # "enter"
             /\ obs'.result = NotConsumed
             /\ handlers' = handlers
             /\ overlay' = overlay
             /\ session' = session
             /\ nav' = tree_keypress(nav, obs'.key)
       /\ (obs'.event = "Enter" /\ obs'.shape \in Shapes)
          => /\ obs'.result.consumed
             /\ nav' = nav]_vars

C29_Witness ==
    /\ obs.event = "Key"
    /\ obs.key = "-"
    /\ obs.shape = "widget_start"
    /\ nav.focus \in ParentNodes
    /\ nav.focus \notin nav.expanded
    /\ overlay = "None"
    /\ Sum(handlers, ActionNodes) > 0

----------------------------------------------------------------------------
(* Setup Wizard: the order of the step screens (under Spec) *)

\* the screen the wizard's _w shows: the completion screen, the network step
\* in its pop-up host, or the step widget at the head of the pile
ShownStep(wz) ==
    IF Completed(wz) THEN "Completed"
    ELSE IF NetworkPresented(wz) THEN "NetworkSelector"
    ELSE wz.pile[1]

StepOrder ==
    <<"HostnameManager", "TimezoneManager", "TimeManager", "NetworkSelector",
      "Completed">>

PlaceOf(screen) == CHOOSE i \in DOMAIN StepOrder : StepOrder[i] = screen

\* C28: a run of the wizard starts at the hostname step; what the wizard
\* shows only ever changes to the next of hostname, timezone, time, network,
\* Completed, or from Completed back to the hostname step (a new run).  So
\* no step is skipped or repeated within a run and Completed follows the
\* four steps.
C28_StepOrder ==
    /\ (obs.event = "start" => ShownStep(wizard) = StepOrder[1])
    /\ [][/\ ShownStep(wizard) \in Range(StepOrder)
          /\ ShownStep(wizard') \in Range(StepOrder)
          /\ ShownStep(wizard') # ShownStep(wizard)
             => \/ PlaceOf(ShownStep(wizard')) = PlaceOf(ShownStep(wizard)) + 1
                \/ /\ ShownStep(wizard) = "Completed"
                   /\ ShownStep(wizard') = StepOrder[1]]_vars

C28_Witness ==
    /\ wizard.initial_setup
    /\ ShownStep(wizard) = "Completed"
    /\ wizard.current_step_index = LastStep
    /\ next_run = -1

----------------------------------------------------------------------------
(* Menu trees in general: MenuParentNode over any menu data *)

MaxFan == 2

SeqsUpTo(S, n) == UNION {[1..k -> S] : k \in 0..n}

\* Menu data as tui.py writes it: a dict with "name" and either "children"
\* (a list of such dicts), or "action", or neither.  The data of tui.py nests
\* two levels of "children" below the top item and gives every item of the
\* lower level an action; so do these.
LeafItems == {[name |-> "item"], [name |-> "item", action |-> "action"]}

ParentItems(kids) ==
    {[name |-> "menu", children |-> cs] : cs \in SeqsUpTo(kids, MaxFan)}

Menus ==
    ParentItems(LeafItems \cup ParentItems({[name |-> "item", action |-> "action"]}))

\* the paths of child keys two levels of "children" allow
TreePaths == SeqsUpTo(1..MaxFan, 2)

\* variant: the last declared child gets no key
load_child_keys_short(data) == [k \in 1..(Len(data.children) - 1) |-> k]

\* MenuParentNode.load_child_keys: range(len(data["children"])), here from 1
load_child_keys_of(data) == [k \in 1..Len(data.children) |-> k]

\* MenuParentNode.load_child_node: the class by the keys of the child's dict,
\* the child's dict as the node's value
load_child_node(data, key) ==
    LET child_data == data.children[key]
    IN  [class |-> IF "children" \in DOMAIN child_data THEN "MenuParentNode"
                   ELSE IF "action" \in DOMAIN child_data THEN "ActionNode"
                   ELSE "MenuNode",
         value |-> child_data]

\* The rows the tree walker yields from a node down (urwid TreeWalker over
\* ParentNode.get_child_keys / get_child_node): the node, then, if it is a
\* parent and its widget is expanded, each child's rows in key order.
RECURSIVE Walk(_, _, _)
Walk(node, path, expanded) ==
    LET keys == load_child_keys_of(node.value)
        RECURSIVE from(_)
        from(i) ==
            IF i > Len(keys) THEN <<>>
            ELSE Walk(load_child_node(node.value, keys[i]), path \o <<keys[i]>>,
                      expanded) \o from(i + 1)
    IN  <<[path |-> path, class |-> node.class, value |-> node.value]>> \o
        (IF node.class = "MenuParentNode" /\ path \in expanded THEN from(1) ELSE <<>>)

\* Menu.__init__: topnode = MenuParentNode(menu_data, ...)
Exposed(data, expanded) ==
    Walk([class |-> "MenuParentNode", value |-> data], TopNode, expanded)

\* the paths of the parent rows among the given rows
ParentPaths(rows) ==
    {rows[i].path : i \in {j \in DOMAIN rows : rows[j].class = "MenuParentNode"}}

\* TreeWidget.__init__: every parent row starts expanded
Tree_init(data) ==
    [data |-> data, expanded |-> ParentPaths(Exposed(data, TreePaths))]

----------------------------------------------------------------------------
(* A tree view over any menu: Menu(menu_data) *)

TreeInit ==
    /\ \E data \in Menus : nav = Tree_init(data)
    /\ obs = [event |-> "start", path |-> TopNode, again |-> FALSE]
    /\ session = "running"
    /\ overlay = "None"
    /\ wizard = Untracked
    /\ hn = Untracked
    /\ handlers = Untracked
    /\ next_run = 0
    /\ tz = Untracked
    /\ boot = Untracked
    /\ tm = Untracked

\* "+" or "right" on an exposed parent row that is collapsed
\* (TreeWidget.keypress); `again` tells that the key before collapsed this row
TreeExpand(path) ==
    /\ path \in ParentPaths(Exposed(nav.data, nav.expanded))
    /\ path \notin nav.expanded
    /\ nav' = [nav EXCEPT !.expanded = @ \cup {path}]
    /\ obs' = [event |-> "expand", path |-> path,
               again |-> (obs.event = "collapse" /\ obs.path = path)]
    /\ UNCHANGED <<session, overlay, wizard, hn, handlers, next_run, tz, boot, tm>>

\* "-" on an exposed parent row that is expanded, or on a row below it
\* (TreeListBox.collapse_focus_parent)
TreeCollapse(path) ==
    /\ path \in ParentPaths(Exposed(nav.data, nav.expanded))
    /\ path \in nav.expanded
    /\ nav' = [nav EXCEPT !.expanded = @ \ {path}]
    /\ obs' = [event |-> "collapse", path |-> path, again |-> FALSE]
    /\ UNCHANGED <<session, overlay, wizard, hn, handlers, next_run, tz, boot, tm>>

TreeNext ==
    \/ \E path \in TreePaths : TreeExpand(path)
    \/ \E path \in TreePaths : TreeCollapse(path)

TreeSpec == TreeInit /\ [][TreeNext]_vars

----------------------------------------------------------------------------
(* Menu tree exposure: claim (under TreeSpec) *)

\* a path of child indices is in range in the menu data at every index
RECURSIVE InRange(_, _)
InRange(data, path) ==
    \/ path = <<>>
    \/ /\ "children" \in DOMAIN data
       /\ Head(path) \in 1..Len(data.children)
       /\ InRange(data.children[Head(path)], Tail(path))

\* the item an in-range path names
RECURSIVE ItemAt(_, _)
ItemAt(data, path) ==
    IF path = <<>> THEN data ELSE ItemAt(data.children[Head(path)], Tail(path))

\* the rows directly below a row
ChildRows(rows, path) ==
    SelectSeq(rows, LAMBDA r : Len(r.path) = Len(path) + 1 /\ ParentOf(r.path) = path)

\* what the tree view exposes agrees with the menu data
ExposureAgrees(n) ==
    LET all == Exposed(n.data, TreePaths)
        now == Exposed(n.data, n.expanded)
    IN  /\ {all[i].path : i \in DOMAIN all} = {p \in TreePaths : InRange(n.data, p)}
        /\ \A i, j \in DOMAIN all : all[i].path = all[j].path => i = j
        /\ \A i \in DOMAIN now : now[i].value = ItemAt(n.data, now[i].path)
        /\ \A p \in ParentPaths(now) \cap n.expanded :
              LET kids == ChildRows(now, p)
              IN  /\ Len(kids) = Len(ItemAt(n.data, p).children)
                  /\ \A k \in DOMAIN kids : kids[k].path = p \o <<k>>

\* C27: with every node expanded the tree exposes exactly the paths of
\* in-range child indices, each once and with the item the data declares
\* there; below each exposed and expanded parent its children stand in
\* declared order, before and after every collapse and every expansion (a
\* re-expansion among them); the data is never changed.
C27_TreeExposure ==
    [][/\ nav'.data = nav.data
       /\ ExposureAgrees(nav)
       /\ ExposureAgrees(nav')]_vars

C27_Witness ==
    /\ obs.event = "expand"
    /\ obs.again
    /\ obs.path # TopNode
    /\ Len(ItemAt(nav.data, obs.path).children) = MaxFan
    /\ Len(Exposed(nav.data, nav.expanded)) = 2 + 2 * MaxFan

----------------------------------------------------------------------------
(* The wizard's own close signal (under Spec) *)

\* C31: the wizard emits close only from Home on the completion screen of a
\* manual launch: the step that emits starts in Completed, in no InStep(i),
\* with the flag off; only that step takes the wizard off the pop-up host;
\* Back on the embedded hostname screen leaves the wizard and the pop-up host
\* as they are and emits nothing; a first-boot wizard never emits.
C31_CloseOnlyFromHome ==
    [][/\ obs'.event = "Home"
          => /\ obs'.emitted = 1
             /\ ~wizard.initial_setup
             /\ Completed(wizard)
             /\ "Home" \in WizardControls(wizard)
             /\ \A i \in 0..LastStep : ~InStep(wizard, i)
       /\ (overlay = "SetupWizard" /\ overlay' # "SetupWizard")
          => obs'.event = "Home"
       /\ obs'.event = "HostnameBack"
          => /\ obs'.emitted = 0
             /\ wizard' = wizard
             /\ overlay' = overlay
       /\ wizard.initial_setup
          => /\ obs'.event # "Home"
             /\ obs'.emitted = 0
             /\ wizard'.initial_setup]_vars

C31_Witness ==
    /\ obs.event = "Home"
    /\ obs.emitted = 1
    /\ obs.dismissed = 2
    /\ ~wizard.initial_setup
    /\ overlay = "None"
    /\ Len(wizard.network_close_handlers) = 2

----------------------------------------------------------------------------
(* The first-boot session (under TimezoneSpec: the wizard's timezone step) *)

\* C32: in a first-boot session the wizard stays the top-level view: the
\* menu's pop-up host never presents anything and the step screen stays
\* shown, whatever the step's events do; the session ends only by the quit
\* key or by a reboot that succeeded.
C32_FirstBootStaysInWizard ==
    tz.setup_wizard
    => /\ overlay = "None"
       /\ TimezoneShown
       /\ session \in {"running", "quit", "rebooted"}
       /\ session = "quit" => obs.event = "Quit"
       /\ session = "rebooted" => obs.event = "Reboot" /\ obs.exit = 0

====
